---- MODULE Spec2Model ----
(***************************************************************************)
(* A model of Protein_database.py: the schema initializer, the six table   *)
(* loaders, the nine query functions and the command-line dispatcher main, *)
(* over an abstract SQLite database.                                       *)
(*                                                                         *)
(* A Python str is a sequence of one-character strings.  A value stored in *)
(* a table is a record [t, n, s]: t is the SQLite storage class ("null",   *)
(* "num" or "text"), n / d the number of a "num" value and s the           *)
(* characters of a "text" value.  Numbers are non-negative: the only       *)
(* numeric literals of the model's files are digit strings, and the only   *)
(* fractions are the means AVG computes.                                   *)
(*                                                                         *)
(* `schema' and `tables' are the committed contents of the database file.  *)
(* Every function of the program opens its own connection and the program  *)
(* is single-threaded, so each function is one action.  A loader works on  *)
(* the uncommitted view of its connection (`work'); only connection.commit *)
(* writes that view to the file.  When an exception leaves the loader the  *)
(* commit is never reached, the exception ends the process, and SQLite     *)
(* rolls the open transaction back.                                        *)
(***************************************************************************)
EXTENDS Integers, Sequences, FiniteSets

VARIABLES schema, tables, last

vars == <<schema, tables, last>>

----------------------------------------------------------------------------
(* Bounds of the model.                                                    *)

\* records of a subjects file
MaxSubjectRecs == 2

\* lines of a samples file
MaxSampleRecs == 2

\* lines of a transcript abundance file
MaxAbundanceLines == 2

----------------------------------------------------------------------------
(* SQLite values.                                                          *)

NULL == [t |-> "null", n |-> 0, d |-> 1, s |-> <<>>]

Num(k) == [t |-> "num", n |-> k, d |-> 1, s |-> <<>>]

Txt(str) == [t |-> "text", n |-> 0, d |-> 1, s |-> str]

RECURSIVE GCD(_, _)
GCD(a, b) == IF b = 0 THEN a ELSE GCD(b, a % b)

\* the number a / b (b > 0) in lowest terms
Ratio(a, b) == [t |-> "num", n |-> a \div GCD(a, b), d |-> b \div GCD(a, b), s |-> <<>>]

DigitChars == <<"0", "1", "2", "3", "4", "5", "6", "7", "8", "9">>

IsDigit(c) == \E i \in 1..10 : DigitChars[i] = c

DigitVal(c) == (CHOOSE i \in 1..10 : DigitChars[i] = c) - 1

\* a well-formed integer literal: one or more decimal digits
IsIntLiteral(str) == Len(str) > 0 /\ \A i \in 1..Len(str) : IsDigit(str[i])

RECURSIVE IntOf(_)
IntOf(str) ==
    IF str = <<>> THEN 0
    ELSE 10 * IntOf(SubSeq(str, 1, Len(str) - 1)) + DigitVal(str[Len(str)])

RECURSIVE DecimalOf(_)
DecimalOf(k) ==
    IF k < 10 THEN <<DigitChars[k + 1]>>
    ELSE DecimalOf(k \div 10) \o <<DigitChars[(k % 10) + 1]>>

\* the text of a value, as the SQL operator || takes it
TextOf(v) == IF v.t = "num" THEN DecimalOf(v.n) ELSE v.s

\* the characters the model's texts are made of, in ASCII order
Ascii ==
    <<"-", ".", "0", "1", "2", "3", "4", "5", "6", "7", "8", "9",
      "A", "B", "C", "D", "E", "F", "G", "H", "I", "J", "K", "L", "M",
      "N", "O", "P", "Q", "R", "S", "T", "U", "V", "W", "X", "Y", "Z",
      "_", "a", "b", "c", "d", "e", "f", "g", "h", "i", "j", "k", "l", "m",
      "n", "o", "p", "q", "r", "s", "t", "u", "v", "w", "x", "y", "z">>

CharRank(c) == CHOOSE i \in 1..Len(Ascii) : Ascii[i] = c

\* memcmp order of two texts
RECURSIVE TextLess(_, _)
TextLess(a, b) ==
    IF b = <<>> THEN FALSE
    ELSE IF a = <<>> THEN TRUE
    ELSE IF a[1] # b[1] THEN CharRank(a[1]) < CharRank(b[1])
    ELSE TextLess(Tail(a), Tail(b))

\* SQLite's order of two non-NULL values: every number sorts before every
\* text, numbers by value, texts by memcmp.
SqlLess(v, w) ==
    IF v.t = "num" /\ w.t = "num" THEN v.n * w.d < w.n * v.d
    ELSE IF v.t = "text" /\ w.t = "text" THEN TextLess(v.s, w.s)
    ELSE v.t = "num"

\* MIN and MAX of a non-empty set of non-NULL values
SqlMin(vs) == CHOOSE v \in vs : \A w \in vs : v = w \/ SqlLess(v, w)

SqlMax(vs) == CHOOSE v \in vs : \A w \in vs : v = w \/ SqlLess(w, v)

\* the number a text converts to in arithmetic: its longest digit prefix
RECURSIVE LeadingInt(_, _)
LeadingInt(str, acc) ==
    IF str = <<>> \/ ~IsDigit(str[1]) THEN acc
    ELSE LeadingInt(Tail(str), 10 * acc + DigitVal(str[1]))

\* Column affinity applied to a bound Python str when it is stored: a TEXT
\* column keeps the text; an INTEGER or REAL column converts a well-formed
\* numeric literal to the number and keeps any other text as text.
ApplyAffinity(affinity, str) ==
    IF affinity \in {"INTEGER", "REAL"} /\ IsIntLiteral(str)
    THEN Num(IntOf(str))
    ELSE Txt(str)

\* SQL comparison  v > k  against a numeric literal: NULL compares as
\* unknown, a number by value, and a text is greater than every number.
SqlGreaterNum(v, k) == v.t = "text" \/ (v.t = "num" /\ v.n > k * v.d)

\* SQL comparison  v != 'str'  against a text literal: unknown for NULL,
\* true for every number.
SqlNotEqualText(v, str) == v.t = "num" \/ (v.t = "text" /\ v.s # str)

\* SQL comparison  v = 'str'
SqlEqualText(v, str) == v.t = "text" /\ v.s = str

\* the rows a cursor fetches, as a bag: fetched row |-> number of copies
Fetched(rows, Select(_)) ==
    [x \in {Select(r) : r \in rows} |-> Cardinality({r \in rows : Select(r) = x})]

----------------------------------------------------------------------------
(* The schema: the six CREATE TABLE statements of database_struct.         *)

TableNames ==
    <<"Subjects", "Samples", "TranscriptAbundance", "ProteinAbundance",
      "MetaboliteAbundance", "Annotation">>

\* cols: column |-> declared affinity; pk: the PRIMARY KEY columns
TableDefs ==
    [Subjects |->
        [cols |-> [SubjectID |-> "TEXT", Sex |-> "TEXT", Age |-> "INTEGER",
                   BMI |-> "REAL", Race |-> "TEXT", SSPG |-> "REAL",
                   InsulinStatus |-> "TEXT"],
         pk |-> {"SubjectID"}],
     Samples |->
        [cols |-> [SampleID |-> "TEXT", SubjectID |-> "TEXT",
                   VisitID |-> "INTEGER"],
         pk |-> {"SampleID"}],
     TranscriptAbundance |->
        [cols |-> [SampleID |-> "TEXT", TranscriptID |-> "TEXT",
                   Abundance |-> "REAL"],
         pk |-> {"SampleID", "TranscriptID"}],
     ProteinAbundance |->
        [cols |-> [SampleID |-> "TEXT", ProteinID |-> "TEXT",
                   Abundance |-> "REAL"],
         pk |-> {"SampleID", "ProteinID"}],
     MetaboliteAbundance |->
        [cols |-> [SampleID |-> "TEXT", PeakID |-> "TEXT",
                   Abundance |-> "REAL"],
         pk |-> {"SampleID", "PeakID"}],
     Annotation |->
        [cols |-> [PeakID |-> "TEXT", Metabolite |-> "TEXT", KEGG |-> "TEXT",
                   HMDB |-> "TEXT", Pathway |-> "TEXT"],
         pk |-> {"PeakID", "Metabolite"}]]

NoTables == [name \in {} |-> TableDefs.Subjects]

NoRows ==
    [Subjects |-> {}, Samples |-> {}, TranscriptAbundance |-> {},
     ProteinAbundance |-> {}, MetaboliteAbundance |-> {}, Annotation |-> {}]

\* cursor.executescript runs outside any transaction: every CREATE TABLE that
\* succeeds stays, and the first one whose table exists raises
\* sqlite3.OperationalError and ends the script.
RECURSIVE executescript_Recreates(_, _, _)
executescript_Recreates(sch, tabs, i) ==
    IF i > Len(TableNames) THEN [status |-> "ok", schema |-> sch, tables |-> tabs]
    ELSE executescript_Recreates(
            [name \in DOMAIN sch \cup {TableNames[i]} |->
                IF name = TableNames[i] THEN TableDefs[name] ELSE sch[name]],
            [tabs EXCEPT ![TableNames[i]] = {}],
            i + 1)

RECURSIVE executescript(_, _, _)
executescript(sch, tabs, i) ==
    IF i > Len(TableNames) THEN [status |-> "ok", schema |-> sch, tables |-> tabs]
    ELSE IF TableNames[i] \in DOMAIN sch
         THEN [status |-> "OperationalError", schema |-> sch, tables |-> tabs]
         ELSE executescript(
                [name \in DOMAIN sch \cup {TableNames[i]} |->
                    IF name = TableNames[i] THEN TableDefs[name] ELSE sch[name]],
                [tabs EXCEPT ![TableNames[i]] = {}],
                i + 1)

\* The value a column of a created table stores for a bound Python str.
Stored(sch, table, column, str) == ApplyAffinity(sch[table].cols[column], str)

\* A row collides with a stored row when their primary-key columns are equal
\* (SQLite never takes two NULL keys for equal).
Collides(sch, table, rows, row) ==
    \E r \in rows : \A c \in sch[table].pk : row[c].t # "null" /\ r[c] = row[c]

\* cursor.execute("INSERT INTO ...") once per element of rows, in order, on
\* the uncommitted view `work': the first colliding row raises
\* sqlite3.IntegrityError, which no loader catches.  `at' is the number of rows
\* inserted before the one that raised.
RECURSIVE InsertEach(_, _, _, _, _)
InsertEach(sch, table, rows, work, i) ==
    IF i > Len(rows) THEN [status |-> "ok", work |-> work, at |-> Len(rows)]
    ELSE IF Collides(sch, table, work, rows[i])
         THEN [status |-> "IntegrityError", work |-> work, at |-> i - 1]
         ELSE InsertEach(sch, table, rows, work \cup {rows[i]}, i + 1)

\* What one call left behind: the function, its outcome ("ok" or the exception
\* that left it), the number of rows its table had when it began and the file
\* it loaded (when it was a loader that committed),
\* the uncommitted rows and the number of the record at which the exception
\* was raised (when one was; 0 otherwise), what it printed and what it
\* returned.
NoFile == <<>>

NoReturn == <<>>

Call(op, status, had, loaded, at, work, out, ret) ==
    [op |-> op, status |-> status, had |-> had, loaded |-> loaded, at |-> at,
     work |-> work, out |-> out, ret |-> ret]

----------------------------------------------------------------------------
(* database_struct                                                         *)

database_struct ==
    LET run == executescript(schema, tables, 1)
    IN  /\ schema' = run.schema
        /\ tables' = run.tables
        /\ last' = Call("database_struct", "ok", 0, NoFile, 0, {},
                        IF run.status = "ok"
                        THEN <<"Database Construction Has Begun">>
                        ELSE <<"Database Construction Has Begun", "SQLite error">>,
                        NoReturn)

----------------------------------------------------------------------------
(* subject_table_populator                                                 *)

None == NULL

\* the two subjects the queries name
ZNQOVZV == <<"Z", "N", "Q", "O", "V", "Z", "V">>

ZOZOW1T == <<"Z", "O", "Z", "O", "W", "1", "T">>

NA == <<"N", "A">>

\* One record of the subjects file becomes one row.  The loader computes
\* `age' (None for the sentinels "NA" and "") and then binds row['Age'].
SubjectRow(sch, row) ==
    LET age == IF row.Age \in {NA, <<>>} THEN None ELSE Txt(row.Age)
    IN  [SubjectID     |-> Stored(sch, "Subjects", "SubjectID", row.SubjectID),
         Sex           |-> Stored(sch, "Subjects", "Sex", row.Sex),
         Age           |-> Stored(sch, "Subjects", "Age", row.Age),
         BMI           |-> Stored(sch, "Subjects", "BMI", row.BMI),
         Race          |-> Stored(sch, "Subjects", "Race", row.Race),
         SSPG          |-> Stored(sch, "Subjects", "SSPG", row.SSPG),
         InsulinStatus |-> Stored(sch, "Subjects", "InsulinStatus",
                                  row.IR_IS_classification)]

\* A loader whose table does not exist: its DELETE raises OperationalError.
NoSuchTable(op) ==
    /\ last' = Call(op, "OperationalError", 0, NoFile, 0, {}, <<>>, NoReturn)
    /\ UNCHANGED <<schema, tables>>

\* DELETE FROM table, one INSERT per row, commit: the body the five
\* plain-insert loaders share.  `rows' are the rows the file's records bind,
\* in the order the loader executes the INSERTs, and `owner[k]' is the number
\* of the record row k comes from.
PlainLoad_NoDelete(op, table, rows, owner, file, done) ==
    \E run \in {InsertEach(schema, table, rows, tables[table], 1)} :
        IF run.status = "ok"
        THEN /\ tables' = [tables EXCEPT ![table] = run.work]
             /\ last' = Call(op, "ok", Cardinality(tables[table]), file, 0, {},
                             <<done>>, NoReturn)
             /\ UNCHANGED schema
        ELSE /\ last' = Call(op, run.status, Cardinality(tables[table]), NoFile,
                             owner[run.at + 1], run.work, <<>>, NoReturn)
             /\ UNCHANGED <<schema, tables>>

PlainLoad_CommitsPartial(op, table, rows, owner, file, done) ==
    \E run \in {InsertEach(schema, table, rows, {}, 1)} :
        IF run.status = "ok"
        THEN /\ tables' = [tables EXCEPT ![table] = run.work]
             /\ last' = Call(op, "ok", Cardinality(tables[table]), file, 0, {},
                             <<done>>, NoReturn)
             /\ UNCHANGED schema
        ELSE /\ tables' = [tables EXCEPT ![table] = run.work]
             /\ last' = Call(op, run.status, Cardinality(tables[table]), NoFile,
                             owner[run.at + 1], run.work, <<>>, NoReturn)
             /\ UNCHANGED schema

PlainLoad(op, table, rows, owner, file, done) ==
    \E run \in {InsertEach(schema, table, rows, {}, 1)} :
        IF run.status = "ok"
        THEN /\ tables' = [tables EXCEPT ![table] = run.work]
             /\ last' = Call(op, "ok", Cardinality(tables[table]), file, 0, {},
                             <<done>>, NoReturn)
             /\ UNCHANGED schema
        ELSE /\ last' = Call(op, run.status, Cardinality(tables[table]), NoFile,
                             owner[run.at + 1], run.work, <<>>, NoReturn)
             /\ UNCHANGED <<schema, tables>>

subject_table_populator(file) ==
    IF "Subjects" \notin DOMAIN schema
    THEN NoSuchTable("subject_table_populator")
    ELSE \E rows \in {[i \in 1..Len(file) |-> SubjectRow(schema, file[i])]} :
             PlainLoad("subject_table_populator", "Subjects", rows,
                       [i \in 1..Len(file) |-> i], file,
                       "Subjects table populated successfully.")

----------------------------------------------------------------------------
(* The query functions over Subjects.                                      *)

\* A query leaves the database as it is.  A query whose table does not exist
\* raises sqlite3.OperationalError from cursor.execute.
Answer(op, status, out, ret) == Call(op, status, 0, NoFile, 0, {}, out, ret)

NoTable(op) == Answer(op, "OperationalError", <<>>, NoReturn)

\* Query 1: SELECT SubjectID, Age FROM Subjects WHERE Age > 70
subjects_over_70_call ==
    IF "Subjects" \notin DOMAIN schema THEN NoTable("subjects_over_70")
    ELSE LET answer == {<<r.SubjectID, r.Age>> :
                            r \in {x \in tables.Subjects : SqlGreaterNum(x.Age, 70)}}
         IN  IF answer # {}
             THEN Answer("subjects_over_70", "ok", <<>>, answer)
             ELSE Answer("subjects_over_70", "ok", <<"No subjects over age 70.">>, {})

subjects_over_70 ==
    /\ last' = subjects_over_70_call
    /\ UNCHANGED <<schema, tables>>

\* the rows of a set as ORDER BY SubjectID DESC returns them (SubjectID is
\* the primary key: no two rows share it)
RECURSIVE OrderBySubjectIDDesc(_)
OrderBySubjectIDDesc(rows) ==
    IF rows = {} THEN <<>>
    ELSE LET top == CHOOSE r \in rows :
                        \A x \in rows : x = r \/ SqlLess(x.SubjectID, r.SubjectID)
         IN  <<top>> \o OrderBySubjectIDDesc(rows \ {top})

\* Query 2: SELECT SubjectID FROM Subjects WHERE Sex = 'F' and BMI BETWEEN
\* 18.5 and 24.9 ORDER BY SubjectID DESC
females_with_healthy_BMI_call ==
    IF "Subjects" \notin DOMAIN schema THEN NoTable("females_with_healthy_BMI")
    ELSE LET hit(r) == /\ SqlEqualText(r.Sex, <<"F">>)
                       /\ r.BMI.t = "num"
                       /\ 10 * r.BMI.n >= 185 * r.BMI.d
                       /\ 10 * r.BMI.n <= 249 * r.BMI.d
             ordered == OrderBySubjectIDDesc({r \in tables.Subjects : hit(r)})
             answer == [i \in 1..Len(ordered) |-> <<ordered[i].SubjectID>>]
         IN  IF answer # <<>>
             THEN Answer("females_with_healthy_BMI", "ok", <<>>, answer)
             ELSE Answer("females_with_healthy_BMI", "ok",
                         <<"No Females with Healthy BMI.">>, <<>>)

females_with_healthy_BMI ==
    /\ last' = females_with_healthy_BMI_call
    /\ UNCHANGED <<schema, tables>>

\* SUM of the numbers a set of rows holds in Age: a number by value, a text
\* by its leading digits
RECURSIVE SumAge(_)
SumAge(rows) ==
    IF rows = {} THEN 0
    ELSE LET r == CHOOSE x \in rows : TRUE
         IN  (IF r.Age.t = "num" THEN r.Age.n ELSE LeadingInt(r.Age.s, 0))
                + SumAge(rows \ {r})

\* the rows query 6 aggregates: WHERE Age IS NOT NULL AND Age != 'NA'
RowsWithAge ==
    {r \in tables.Subjects : r.Age.t # "null" /\ SqlNotEqualText(r.Age, NA)}

\* Query 6: SELECT MIN(Age), MAX(Age), AVG(Age) FROM Subjects WHERE Age IS NOT
\* NULL AND Age != 'NA'.  The aggregate always yields one row: a row of NULLs
\* when no row passes the WHERE.  A database error is caught and printed, and
\* the use of `answer' after it raises UnboundLocalError.
statistical_data_on_age_call ==
    IF "Subjects" \notin DOMAIN schema
    THEN Answer("statistical_data_on_age", "UnboundLocalError",
                <<"Database error">>, NoReturn)
    ELSE LET rows == RowsWithAge
             ages == {r.Age : r \in rows}
             answer == IF rows = {} THEN <<NULL, NULL, NULL>>
                       ELSE <<SqlMin(ages), SqlMax(ages),
                              Ratio(SumAge(rows), Cardinality(rows))>>
         IN  IF \A i \in 1..3 : answer[i] = NULL
             THEN Answer("statistical_data_on_age", "ok",
                         <<"No valid data found.">>, <<answer>>)
             ELSE Answer("statistical_data_on_age", "ok", <<>>, <<answer>>)

statistical_data_on_age ==
    /\ last' = statistical_data_on_age_call
    /\ UNCHANGED <<schema, tables>>

\* Query 9: SELECT Age, BMI FROM Subjects WHERE Age IS NOT NULL AND BMI IS NOT
\* NULL; the rows whose two values are numbers are plotted, and the plot is
\* saved when there is one.
age_bmi_plot_call ==
    IF "Subjects" \notin DOMAIN schema THEN NoTable("age_bmi_plot")
    ELSE LET pair(r) == <<r.Age, r.BMI>>
             rows == {r \in tables.Subjects : r.Age.t # "null" /\ r.BMI.t # "null"}
             data == Fetched(rows, pair)
             numeric_data == {r \in rows : r.Age.t = "num" /\ r.BMI.t = "num"}
         IN  IF numeric_data # {}
             THEN Answer("age_bmi_plot", "ok",
                         <<"Retrieved data",
                           "Plot saved as 'age_vs_bmi_scatterplot.png'">>, data)
             ELSE Answer("age_bmi_plot", "ok",
                         <<"Retrieved data",
                           "No valid Age and BMI data to plot.">>, data)

age_bmi_plot ==
    /\ last' = age_bmi_plot_call
    /\ UNCHANGED <<schema, tables>>

----------------------------------------------------------------------------
(* The subjects files of the model.                                        *)

SubjectIDs == {ZNQOVZV, ZOZOW1T}

\* the Age field: the two sentinels, an age under 70 and an age over it
AgeFields == {NA, <<>>, <<"6", "5">>, <<"7", "2">>}

\* one record of a subjects file (csv.DictReader: column |-> str)
SubjectRecord(id, age) ==
    [SubjectID |-> id,
     Sex       |-> IF id = ZNQOVZV THEN <<"F">> ELSE <<"M">>,
     Age       |-> age,
     BMI       |-> IF id = ZNQOVZV THEN <<"2", "2">> ELSE <<"3", "0">>,
     Race      |-> IF id = ZNQOVZV THEN <<"C">> ELSE <<"A">>,
     SSPG      |-> IF id = ZNQOVZV THEN <<"9", "1">> ELSE NA,
     IR_IS_classification |-> IF id = ZNQOVZV THEN <<"I", "R">> ELSE <<"I", "S">>]

SubjectRecords == {SubjectRecord(id, age) : id \in SubjectIDs, age \in AgeFields}

\* all sequences of at most n elements of a set
RECURSIVE SeqsUpTo(_, _)
SeqsUpTo(S, n) ==
    IF n = 0 THEN {<<>>}
    ELSE LET shorter == SeqsUpTo(S, n - 1)
         IN  shorter \cup {Append(q, x) : q \in shorter, x \in S}

SubjectFiles == SeqsUpTo(SubjectRecords, MaxSubjectRecs)

\* The samples files of the model: one column, named SampleID or not, and
\* lines that split on "-" into two parts (two of them with the same visit
\* number, one written with a leading zero), one part and three parts.
SampleIdFields ==
    {ZNQOVZV \o <<"-", "1">>,
     ZNQOVZV \o <<"-", "0", "1">>,
     ZOZOW1T \o <<"-", "2">>,
     ZOZOW1T,
     ZOZOW1T \o <<"-", "2", "-", "1">>}

SampleFiles ==
    {[fieldnames |-> h, lines |-> l] :
        h \in {<<"SampleID">>, <<"Sample">>},
        l \in SeqsUpTo(SampleIdFields, MaxSampleRecs)}

----------------------------------------------------------------------------
(* sample_table_populator                                                  *)

\* str.split(sep): the parts of a str between the occurrences of a character
RECURSIVE split(_, _)
split(str, sep) ==
    IF \A i \in 1..Len(str) : str[i] # sep THEN <<str>>
    ELSE LET i == CHOOSE k \in 1..Len(str) :
                      str[k] = sep /\ \A j \in 1..(k - 1) : str[j] # sep
         IN  <<SubSeq(str, 1, i - 1)>> \o split(SubSeq(str, i + 1, Len(str)), sep)

\* the record csv.DictReader makes of one line of a one-column file
SampleRecord(file, i) == [name \in {file.fieldnames[1]} |-> file.lines[i]]

\* The loop over the records.  row['SampleID'] raises KeyError when the file
\* has no such column: caught, printed, next record.  Unpacking the split
\* into (subject_id, visit_id) raises ValueError unless there are exactly two
\* parts: not caught.  INSERT OR IGNORE skips a row whose SampleID is stored.
RECURSIVE InsertSamples(_, _, _, _, _)
InsertSamples(sch, file, work, out, i) ==
    IF i > Len(file.lines) THEN [status |-> "ok", work |-> work, out |-> out, at |-> 0]
    ELSE LET row == SampleRecord(file, i)
         IN  IF "SampleID" \notin DOMAIN row
             THEN InsertSamples(sch, file, work, Append(out, "SampleID not found"), i + 1)
             ELSE LET sample_id == row.SampleID
                      parts == split(sample_id, "-")
                  IN  IF Len(parts) # 2
                      THEN [status |-> "ValueError", work |-> work, out |-> out, at |-> i]
                      ELSE LET new ==
                                 [SampleID  |-> Stored(sch, "Samples", "SampleID", sample_id),
                                  SubjectID |-> Stored(sch, "Samples", "SubjectID", parts[1]),
                                  VisitID   |-> Stored(sch, "Samples", "VisitID", parts[2])]
                           IN  InsertSamples(sch, file,
                                   IF Collides(sch, "Samples", work, new)
                                   THEN work ELSE work \cup {new},
                                   out, i + 1)

sample_table_populator(file) ==
    IF "Samples" \notin DOMAIN schema
    THEN NoSuchTable("sample_table_populator")
    ELSE \E run \in {InsertSamples(schema, file, {}, <<>>, 1)} :
             IF run.status = "ok"
             THEN /\ tables' = [tables EXCEPT !.Samples = run.work]
                  /\ last' = Call("sample_table_populator", "ok",
                                  Cardinality(tables.Samples), file, 0, {},
                                  Append(run.out, "Samples table populated successfully."),
                                  NoReturn)
                  /\ UNCHANGED schema
             ELSE /\ last' = Call("sample_table_populator", run.status,
                                  Cardinality(tables.Samples), NoFile,
                                  run.at, run.work, run.out,
                                  NoReturn)
                  /\ UNCHANGED <<schema, tables>>

\* Query 3: SELECT VisitID FROM Samples WHERE SubjectID = 'ZNQOVZV'; the rows
\* are returned as fetched and nothing is printed.
visits_by_ZNQOVZV_call ==
    IF "Samples" \notin DOMAIN schema THEN NoTable("visits_by_ZNQOVZV")
    ELSE LET visit(r) == <<r.VisitID>>
             answer == Fetched({r \in tables.Samples :
                                   SqlEqualText(r.SubjectID, ZNQOVZV)}, visit)
         IN  Answer("visits_by_ZNQOVZV", "ok", <<>>, answer)

visits_by_ZNQOVZV ==
    /\ last' = visits_by_ZNQOVZV_call
    /\ UNCHANGED <<schema, tables>>


----------------------------------------------------------------------------
(* transcriptome_populator, protein_populator, Metabolite_populator        *)

\* the name of the sample column
SampleIDColumn == <<"S", "a", "m", "p", "l", "e", "I", "D">>

\* The dict csv.DictReader makes of one line, as the sequence of its items:
\* one item per distinct column name, in the order of the names' first
\* occurrences, holding the cell under the last column of that name.
DictRow(fieldnames, cells) ==
    LET firsts == {i \in 1..Len(fieldnames) :
                      \A j \in 1..(i - 1) : fieldnames[j] # fieldnames[i]}
        lastOf(i) == CHOOSE j \in 1..Len(fieldnames) :
                        /\ fieldnames[j] = fieldnames[i]
                        /\ \A k \in (j + 1)..Len(fieldnames) : fieldnames[k] # fieldnames[i]
        nth(k) == CHOOSE i \in firsts : Cardinality({j \in firsts : j < i}) = k - 1
    IN  [k \in 1..Cardinality(firsts) |-> <<fieldnames[nth(k)], cells[lastOf(nth(k))]>>]

\* row.pop('SampleID'), then one (SampleID, analyte, abundance) per remaining
\* item of the row, in order
PivotLine_KeepsSampleColumn(sch, table, column, fieldnames, cells) ==
    LET items == DictRow(fieldnames, cells)
        sample_id == CHOOSE k \in 1..Len(items) : items[k][1] = SampleIDColumn
    IN  [k \in 1..Len(items) |->
            [c \in {"SampleID", column, "Abundance"} |->
                IF c = "SampleID" THEN Stored(sch, table, c, items[sample_id][2])
                ELSE IF c = column THEN Stored(sch, table, c, items[k][1])
                ELSE Stored(sch, table, c, items[k][2])]]

PivotLine(sch, table, column, fieldnames, cells) ==
    LET items == DictRow(fieldnames, cells)
        sample_id == CHOOSE k \in 1..Len(items) : items[k][1] = SampleIDColumn
        rest == SelectSeq(items, LAMBDA item : item[1] # SampleIDColumn)
    IN  [k \in 1..Len(rest) |->
            [c \in {"SampleID", column, "Abundance"} |->
                IF c = "SampleID" THEN Stored(sch, table, c, items[sample_id][2])
                ELSE IF c = column THEN Stored(sch, table, c, rest[k][1])
                ELSE Stored(sch, table, c, rest[k][2])]]

\* the rows of every line of the file, in the order of their INSERTs, each
\* with the index of its line
RECURSIVE Pivot(_, _, _, _, _)
Pivot(sch, table, column, file, i) ==
    IF i > Len(file.lines) THEN <<>>
    ELSE LET rows == PivotLine(sch, table, column, file.fieldnames, file.lines[i])
         IN  [k \in 1..Len(rows) |-> [row |-> rows[k], line |-> i]]
                \o Pivot(sch, table, column, file, i + 1)

\* The loop the three wide-format loaders share.  row.pop('SampleID') raises
\* KeyError on the first line of a file that has no such column.
WideLoad(op, table, column, file, done) ==
    IF table \notin DOMAIN schema THEN NoSuchTable(op)
    ELSE IF /\ file.lines # <<>>
            /\ \A j \in 1..Len(file.fieldnames) : file.fieldnames[j] # SampleIDColumn
    THEN /\ last' = Call(op, "KeyError", Cardinality(tables[table]), NoFile,
                         1, {}, <<>>, NoReturn)
         /\ UNCHANGED <<schema, tables>>
    ELSE \E pivot \in {Pivot(schema, table, column, file, 1)} :
         \E rows \in {[k \in 1..Len(pivot) |-> pivot[k].row]} :
         \E owner \in {[k \in 1..Len(pivot) |-> pivot[k].line]} :
             PlainLoad(op, table, rows, owner, file, done)

transcriptome_populator(file) ==
    WideLoad("transcriptome_populator", "TranscriptAbundance", "TranscriptID", file,
             "Transcript Abundance Table Populated Successfully.")

protein_populator(file) ==
    WideLoad("protein_populator", "ProteinAbundance", "ProteinID", file,
             "Protein Abundance Table Populated Successfully.")

Metabolite_populator(file) ==
    WideLoad("Metabolite_populator", "MetaboliteAbundance", "PeakID", file,
             "Metabolite Table Populated Successfully.")


----------------------------------------------------------------------------
(* Annotations_populator                                                   *)

AnnotationRow(sch, row) ==
    [PeakID     |-> Stored(sch, "Annotation", "PeakID", row.PeakID),
     Metabolite |-> Stored(sch, "Annotation", "Metabolite", row.Metabolite),
     KEGG       |-> Stored(sch, "Annotation", "KEGG", row.KEGG),
     HMDB       |-> Stored(sch, "Annotation", "HMDB", row.HMDB),
     Pathway    |-> Stored(sch, "Annotation", "Pathway", row.Pathway)]

Annotations_populator(file) ==
    IF "Annotation" \notin DOMAIN schema
    THEN NoSuchTable("Annotations_populator")
    ELSE \E rows \in {[i \in 1..Len(file) |-> AnnotationRow(schema, file[i])]} :
             PlainLoad("Annotations_populator", "Annotation", rows,
                       [i \in 1..Len(file) |-> i], file,
                       "Metabolite Annotation Table Populated successfully.")

----------------------------------------------------------------------------
(* The query functions over the other tables.                              *)

\* Query 4: SELECT DISTINCT S.SubjectID FROM Samples AS S JOIN Subjects AS Sub
\* ON S.SubjectID = Sub.SubjectID WHERE Sub.InsulinStatus = 'IR'
subjects_metabolomic_insulin_resistant_call ==
    IF {"Samples", "Subjects"} \ DOMAIN schema # {}
    THEN NoTable("subjects_metabolomic_insulin_resistant")
    ELSE LET answer ==
                {<<S.SubjectID>> :
                    S \in {x \in tables.Samples :
                              \E Sub \in tables.Subjects :
                                  /\ x.SubjectID.t # "null"
                                  /\ x.SubjectID = Sub.SubjectID
                                  /\ SqlEqualText(Sub.InsulinStatus, <<"I", "R">>)}}
         IN  IF answer # {}
             THEN Answer("subjects_metabolomic_insulin_resistant", "ok", <<>>, answer)
             ELSE Answer("subjects_metabolomic_insulin_resistant", "ok",
                         <<"No Insulin-Resistant Subjects with metabolomics samples found">>,
                         {})

subjects_metabolomic_insulin_resistant ==
    /\ last' = subjects_metabolomic_insulin_resistant_call
    /\ UNCHANGED <<schema, tables>>

nHILIC_121 ==
    <<"n", "H", "I", "L", "I", "C", "_", "1", "2", "1", ".", "0", "5", "0", "5",
      "_", "3", ".", "5">>

nHILIC_130 ==
    <<"n", "H", "I", "L", "I", "C", "_", "1", "3", "0", ".", "0", "8", "7", "2",
      "_", "6", ".", "3">>

nHILIC_133_2 ==
    <<"n", "H", "I", "L", "I", "C", "_", "1", "3", "3", ".", "0", "5", "0", "6",
      "_", "2", ".", "3">>

nHILIC_133_4 ==
    <<"n", "H", "I", "L", "I", "C", "_", "1", "3", "3", ".", "0", "5", "0", "6",
      "_", "4", ".", "4">>

\* Query 5: SELECT DISTINCT KEGG FROM Annotation WHERE PeakID IN (four peaks)
KEGG_id_retriever_call ==
    IF "Annotation" \notin DOMAIN schema THEN NoTable("KEGG_id_retriever")
    ELSE LET answer ==
                {<<r.KEGG>> :
                    r \in {x \in tables.Annotation :
                              \E peak \in {nHILIC_121, nHILIC_130, nHILIC_133_2,
                                           nHILIC_133_4} :
                                  SqlEqualText(x.PeakID, peak)}}
         IN  IF answer # {}
             THEN Answer("KEGG_id_retriever", "ok", <<>>, answer)
             ELSE Answer("KEGG_id_retriever", "ok",
                         <<"No KEGG IDs found for specified peaks">>, {})

KEGG_id_retriever ==
    /\ last' = KEGG_id_retriever_call
    /\ UNCHANGED <<schema, tables>>

\* the orders in which ORDER BY AnnotationCount DESC may return a set of
\* (Pathway, AnnotationCount) rows: rows of equal count come in any order
RECURSIVE OrdersByCountDesc(_)
OrdersByCountDesc(groups) ==
    IF groups = {} THEN {<<>>}
    ELSE UNION {{<<g>> \o rest : rest \in OrdersByCountDesc(groups \ {g})} :
                    g \in {x \in groups : \A y \in groups : y[2] <= x[2]}}

\* Query 7: SELECT Pathway, COUNT(*) AS AnnotationCount FROM Annotation GROUP
\* BY Pathway HAVING AnnotationCount >= 10 ORDER BY AnnotationCount DESC
pathway_annotation_counter_calls ==
    IF "Annotation" \notin DOMAIN schema THEN {NoTable("pathway_annotation_counter")}
    ELSE LET count(pathway) == Cardinality({r \in tables.Annotation : r.Pathway = pathway})
             groups == {<<pathway, count(pathway)>> :
                            pathway \in {r.Pathway : r \in tables.Annotation}}
         IN  {IF answer # <<>>
              THEN Answer("pathway_annotation_counter", "ok", <<>>, answer)
              ELSE Answer("pathway_annotation_counter", "ok",
                          <<"No pathways with at least 10 annotations found.">>, <<>>) :
                answer \in OrdersByCountDesc({g \in groups : g[2] >= 10})}

pathway_annotation_counter ==
    /\ last' \in pathway_annotation_counter_calls
    /\ UNCHANGED <<schema, tables>>

\* the rows query 8 takes the maximum of
RowsOfA1BG ==
    {r \in tables.TranscriptAbundance :
        /\ SqlEqualText(r.TranscriptID, <<"A", "1", "B", "G">>)
        /\ r.SampleID.t # "null"
        /\ \E S \in tables.Samples :
              S.SampleID = r.SampleID /\ SqlEqualText(S.SubjectID, ZOZOW1T)}

\* Query 8: SELECT MAX(Abundance) FROM TranscriptAbundance WHERE TranscriptID =
\* 'A1BG' AND SampleID IN (SELECT SampleID FROM Samples WHERE SubjectID =
\* 'ZOZOW1T'); MAX is NULL when no row has an abundance.
max_A1BG_abundance_call ==
    IF {"Samples", "TranscriptAbundance"} \ DOMAIN schema # {}
    THEN NoTable("max_A1BG_abundance")
    ELSE LET abundances == {r.Abundance : r \in RowsOfA1BG} \ {NULL}
             answer == IF abundances = {} THEN NULL ELSE SqlMax(abundances)
         IN  IF answer # NULL
             THEN Answer("max_A1BG_abundance", "ok", <<>>, answer)
             ELSE Answer("max_A1BG_abundance", "ok",
                         <<"No data found for A1BG abundance for Subject 'ZOZOW1T'.">>,
                         None)

max_A1BG_abundance ==
    /\ last' = max_A1BG_abundance_call
    /\ UNCHANGED <<schema, tables>>

----------------------------------------------------------------------------
(* The abundance files of the model.                                       *)

A1BG == <<"A", "1", "B", "G">>

A2M == <<"A", "2", "M">>

SampleIDs == {ZNQOVZV \o <<"-", "1">>, ZOZOW1T \o <<"-", "2">>}

\* the cells of an abundance file: two numbers
CellFields == {<<"5">>, <<"1", "2">>}

\* a line of n cells that starts with the cell v and alternates between the
\* two numbers
CellRow(n, v) ==
    [j \in 1..n |-> IF j % 2 = 1 THEN v ELSE CHOOSE w \in CellFields : w # v]

\* the lines of a file with the given header: a SampleID and one cell per
\* analyte column
LinesOf(fieldnames) ==
    {<<id>> \o CellRow(Len(fieldnames) - 1, v) : id \in SampleIDs, v \in CellFields}

WideFiles(headers, n) ==
    UNION {{[fieldnames |-> h, lines |-> l] : l \in SeqsUpTo(LinesOf(h), n)} :
                h \in headers}

\* Transcript files: one or two analyte columns, and files of at most one
\* line with no analyte column or with two columns of the same name.
TranscriptFiles ==
    WideFiles({<<SampleIDColumn, A1BG>>, <<SampleIDColumn, A1BG, A2M>>},
              MaxAbundanceLines)
        \cup WideFiles({<<SampleIDColumn>>, <<SampleIDColumn, A1BG, A1BG>>}, 1)

\* A file of one analyte column in three shapes: no line, one line, and
\* three lines of which the second repeats the sample of the first.
ThreeFiles(analyte) ==
    {[fieldnames |-> <<SampleIDColumn, analyte>>, lines |-> l] :
        l \in {<<>>,
               <<(<<ZOZOW1T \o <<"-", "2">>, <<"5">> >>)>>,
               <<(<<ZNQOVZV \o <<"-", "1">>, <<"1", "2">> >>),
                 (<<ZNQOVZV \o <<"-", "1">>, <<"5">> >>),
                 (<<ZOZOW1T \o <<"-", "2">>, <<"5">> >>)>>}}

ProteinFiles == ThreeFiles(A2M)

MetaboliteFiles == ThreeFiles(nHILIC_121)

----------------------------------------------------------------------------
(* The files of the specification that has every function: for each loader *)
(* an empty file, a file that loads and a file whose second record repeats *)
(* the primary key of its first.                                           *)

FewSubjectFiles ==
    {<<>>,
     <<SubjectRecord(ZNQOVZV, <<"7", "2">>)>>,
     <<SubjectRecord(ZOZOW1T, <<"6", "5">>), SubjectRecord(ZOZOW1T, NA),
       SubjectRecord(ZNQOVZV, <<"7", "2">>)>>}

FewSampleFiles ==
    {[fieldnames |-> <<"SampleID">>, lines |-> l] :
        l \in {<<>>,
               <<ZNQOVZV \o <<"-", "1">>, ZOZOW1T \o <<"-", "2">> >>,
               <<ZOZOW1T \o <<"-", "2">>, ZOZOW1T>>}}

FewTranscriptFiles == ThreeFiles(A1BG)

AnnotationRecord(peak, kegg) ==
    [PeakID |-> peak, Metabolite |-> <<"G", "l", "y">>, KEGG |-> kegg,
     HMDB |-> <<"H", "1">>, Pathway |-> <<"P", "1">>]

AnnotationFiles ==
    {<<>>,
     <<AnnotationRecord(nHILIC_121, <<"C", "1">>)>>,
     <<AnnotationRecord(nHILIC_130, <<"C", "2">>),
       AnnotationRecord(nHILIC_130, <<"C", "3">>),
       AnnotationRecord(nHILIC_121, <<"C", "1">>)>>}

----------------------------------------------------------------------------
(* main: the command-line dispatcher.  The command lines of the model name *)
(* no data file, so that --loaddb calls no loader.                         *)

\* --querydb is absent (None) or an integer
MainArgs ==
    [createdb : BOOLEAN, loaddb : BOOLEAN,
     querydb : {<<>>} \cup {<<n>> : n \in -1..10}]

\* the outcome of main: the functions it called, the messages printed by it
\* and by them, and the lines of data it printed
MainCall(args, status, called, out, printed) ==
    [op |-> "main", status |-> status, had |-> 0, loaded |-> NoFile, at |-> 0,
     work |-> {}, out |-> out, ret |-> NoReturn,
     args |-> args, called |-> called, printed |-> printed]

\* a printed line: a literal of the program followed by formatted text
Line(label, text) == [label |-> label, text |-> text]

\* str(v) of a fetched value; a REAL reads back as a float
Str(v, affinity) ==
    IF v = NULL THEN <<"N", "o", "n", "e">>
    ELSE IF v.t = "num" /\ affinity = "REAL" THEN DecimalOf(v.n) \o <<".", "0">>
    ELSE TextOf(v)

\* sep.join(strs)
RECURSIVE join(_, _)
join(sep, strs) ==
    IF strs = <<>> THEN <<>>
    ELSE IF Len(strs) = 1 THEN strs[1]
    ELSE strs[1] \o <<sep>> \o join(sep, Tail(strs))

\* format(v, '.2f') of a number n/d, rounded to the nearest hundredth
Format2f(v) ==
    LET cents == (200 * v.n + v.d) \div (2 * v.d)
    IN  DecimalOf(cents \div 100)
            \o <<".", DigitChars[((cents \div 10) % 10) + 1], DigitChars[(cents % 10) + 1]>>

\* the orders in which the rows of a set may be fetched
RECURSIVE SetOrders(_)
SetOrders(rows) ==
    IF rows = {} THEN {<<>>}
    ELSE UNION {{<<r>> \o rest : rest \in SetOrders(rows \ {r})} : r \in rows}

\* the orders in which the rows of a bag may be fetched
RECURSIVE BagOrders(_)
BagOrders(bag) ==
    IF DOMAIN bag = {} THEN {<<>>}
    ELSE UNION {{<<r>> \o rest :
                    rest \in BagOrders(IF bag[r] = 1
                                       THEN [x \in DOMAIN bag \ {r} |-> bag[x]]
                                       ELSE [bag EXCEPT ![r] = @ - 1])} :
                  r \in DOMAIN bag}

\* the query function of a query number, the possible outcomes of its call,
\* and the affinity of each column of its rows
Queries ==
    [n \in 1..9 |->
        CASE n = 1 -> [name |-> "subjects_over_70", calls |-> {subjects_over_70_call}]
          [] n = 2 -> [name |-> "females_with_healthy_BMI",
                       calls |-> {females_with_healthy_BMI_call}]
          [] n = 3 -> [name |-> "visits_by_ZNQOVZV", calls |-> {visits_by_ZNQOVZV_call}]
          [] n = 4 -> [name |-> "subjects_metabolomic_insulin_resistant",
                       calls |-> {subjects_metabolomic_insulin_resistant_call}]
          [] n = 5 -> [name |-> "KEGG_id_retriever", calls |-> {KEGG_id_retriever_call}]
          [] n = 6 -> [name |-> "statistical_data_on_age",
                       calls |-> {statistical_data_on_age_call}]
          [] n = 7 -> [name |-> "pathway_annotation_counter",
                       calls |-> pathway_annotation_counter_calls]
          [] n = 8 -> [name |-> "max_A1BG_abundance", calls |-> {max_A1BG_abundance_call}]
          [] n = 9 -> [name |-> "age_bmi_plot", calls |-> {age_bmi_plot_call}]]

\* for row in answer: print("\t".join(map(str, row))), for each order in
\* which the rows of the answer may come
RowListings(n, answer) ==
    LET orders == IF n \in {2, 7} THEN {answer}
                  ELSE IF n = 3 THEN BagOrders(answer)
                  ELSE SetOrders(answer)
        text(x) == IF n = 7 /\ x \in Nat THEN DecimalOf(x) ELSE Str(x, "TEXT")
    IN  {[i \in 1..Len(rows) |->
            Line("", join("\t", [j \in 1..Len(rows[i]) |-> text(rows[i][j])]))] :
         rows \in orders}

\* query 6: the three values of answer[0] are formatted with :.2f one after
\* the other; None raises TypeError and a str raises ValueError
RECURSIVE AgeLines(_, _, _)
AgeLines(values, labels, printed) ==
    IF values = <<>> THEN [status |-> "ok", printed |-> printed]
    ELSE IF values[1] = NULL THEN [status |-> "TypeError", printed |-> printed]
    ELSE IF values[1].t = "text" THEN [status |-> "ValueError", printed |-> printed]
    ELSE AgeLines(Tail(values), Tail(labels),
                  Append(printed, Line(labels[1], Format2f(values[1]))))

\* what main does with the value a query function returned: the messages it
\* adds and the lines of data it prints
Report(n, call) ==
    IF n \in {1, 2, 3, 4, 5, 7}
    THEN {[status |-> "ok", out |-> <<>>, printed |-> lines] :
            lines \in RowListings(n, call.ret)}
    ELSE IF n = 6
    THEN LET answer == call.ret
         IN  IF answer # <<>>
             THEN LET run == AgeLines(answer[1],
                                      <<"Minimum Age: ", "Maximum Age: ", "Average Age: ">>,
                                      <<>>)
                  IN  {[status |-> run.status, out |-> <<>>, printed |-> run.printed]}
             ELSE {[status |-> "ok", out |-> <<"No valid age data">>, printed |-> <<>>]}
    ELSE IF n = 8
    THEN {[status |-> "ok", out |-> <<>>,
           printed |-> <<Line("Maximum Abundance of A1BG: ", Str(call.ret, "REAL"))>>]}
    ELSE IF DOMAIN call.ret # {}
         THEN {[status |-> "ok", printed |-> <<>>,
                out |-> <<"Age vs BMI data successfully retrieved and plotted.">>]}
         ELSE {[status |-> "ok", printed |-> <<>>,
                out |-> <<"No valid Age and BMI data available to plot.">>]}

\* the outcomes of the --querydb part of main, after the messages `out' and
\* the calls `called' of the parts before it
Dispatch(args, called, out) ==
    IF args.querydb = <<>> \/ args.querydb[1] = 0
    THEN {MainCall(args, "ok", called, out, <<>>)}
    ELSE IF args.querydb[1] \in 1..9
    THEN LET n == args.querydb[1]
             calling == Append(called, Queries[n].name)
         IN  UNION {IF call.status # "ok"
                    THEN {MainCall(args, call.status, calling, out \o call.out, <<>>)}
                    ELSE {MainCall(args, report.status, calling,
                                   out \o call.out \o report.out, report.printed) :
                            report \in Report(n, call)} :
                    call \in Queries[n].calls}
    ELSE {MainCall(args, "ok", called,
                   Append(out, "Invalid query number. Please choose between 1 and 9."),
                   <<>>)}

main(args) ==
    \E created \in {IF args.createdb THEN executescript(schema, tables, 1)
                    ELSE [status |-> "ok", schema |-> schema, tables |-> tables]} :
        /\ schema' = created.schema
        /\ tables' = created.tables
        /\ LET creating ==
                  IF args.createdb
                  THEN <<"Creating Database Structure", "Database Construction Has Begun">>
                          \o (IF created.status = "ok" THEN <<>> ELSE <<"SQLite error">>)
                          \o <<"Database Structure has Been Created">>
                  ELSE <<>>
               loading == IF args.loaddb THEN <<"All data loaded successfully.">> ELSE <<>>
               called == IF args.createdb THEN <<"database_struct">> ELSE <<>>
           IN  last' \in Dispatch(args, called, creating \o loading)'

----------------------------------------------------------------------------
(* Specifications.                                                         *)

\* a database file that does not exist yet: sqlite3.connect creates it empty
Init ==
    /\ schema = NoTables
    /\ tables = NoRows
    /\ last = Call("none", "ok", 0, NoFile, 0, {}, <<>>, NoReturn)

\* every function that main calls, the loaders on a few files each
Next ==
    \/ database_struct
    \/ \E file \in FewSubjectFiles : subject_table_populator(file)
    \/ \E file \in FewSampleFiles : sample_table_populator(file)
    \/ \E file \in FewTranscriptFiles : transcriptome_populator(file)
    \/ \E file \in ProteinFiles : protein_populator(file)
    \/ \E file \in MetaboliteFiles : Metabolite_populator(file)
    \/ \E file \in AnnotationFiles : Annotations_populator(file)
    \/ subjects_over_70
    \/ females_with_healthy_BMI
    \/ visits_by_ZNQOVZV
    \/ subjects_metabolomic_insulin_resistant
    \/ KEGG_id_retriever
    \/ statistical_data_on_age
    \/ pathway_annotation_counter
    \/ max_A1BG_abundance
    \/ age_bmi_plot

Spec == Init /\ [][Next]_vars

LoadSubjects == \E file \in SubjectFiles : subject_table_populator(file)

\* schema creation, subject loads and the four queries that read Subjects only
NextSubjects ==
    \/ database_struct
    \/ LoadSubjects
    \/ subjects_over_70
    \/ females_with_healthy_BMI
    \/ statistical_data_on_age
    \/ age_bmi_plot

SpecSubjects == Init /\ [][NextSubjects]_vars

LoadSamples == \E file \in SampleFiles : sample_table_populator(file)

\* schema creation, sample loads and the query that reads Samples only
NextSamples ==
    \/ database_struct
    \/ LoadSamples
    \/ visits_by_ZNQOVZV

SpecSamples == Init /\ [][NextSamples]_vars

LoadTranscripts == \E file \in TranscriptFiles : transcriptome_populator(file)

LoadProteins == \E file \in ProteinFiles : protein_populator(file)

LoadMetabolites == \E file \in MetaboliteFiles : Metabolite_populator(file)

\* schema creation and the three wide-format loads
NextAbundance ==
    \/ database_struct
    \/ LoadTranscripts
    \/ LoadProteins
    \/ LoadMetabolites

SpecAbundance == Init /\ [][NextAbundance]_vars

\* main on command lines without data files, over a database that the
\* loaders fill
NextMain ==
    \/ database_struct
    \/ \E file \in FewSubjectFiles : subject_table_populator(file)
    \/ \E file \in FewSampleFiles : sample_table_populator(file)
    \/ \E file \in FewTranscriptFiles : transcriptome_populator(file)
    \/ \E file \in AnnotationFiles : Annotations_populator(file)
    \/ \E args \in MainArgs : main(args)

SpecMain == Init /\ [][NextMain]_vars

----------------------------------------------------------------------------
(* Properties of the subject loader and of the queries over Subjects.      *)

Loaded(op) == last.op = op /\ last.status = "ok"

\* the row of Subjects a record of the file was stored as
SubjectRowOf(record) ==
    CHOOSE r \in tables.Subjects : r.SubjectID = Txt(record.SubjectID)

\* C1: a subject load replaces the table: after subject_table_populator has
\* loaded a file, whatever an earlier load left, Subjects holds exactly one
\* row per record of that file and no other row.
C1_SubjectLoadReplacesAll ==
    Loaded("subject_table_populator") =>
        /\ Cardinality(tables.Subjects) = Len(last.loaded)
        /\ {r.SubjectID : r \in tables.Subjects}
              = {Txt(last.loaded[i].SubjectID) : i \in 1..Len(last.loaded)}

\* a load of one record into a table that held two rows
C1_Witness ==
    /\ Loaded("subject_table_populator")
    /\ last.had = 2
    /\ Len(last.loaded) = 1
    /\ Cardinality(tables.Subjects) = 1

\* C2: every record whose Age field is "NA" or empty is stored with a NULL
\* Age, and every other field of a record is stored as given.
C2_AgeSentinelStoredAsNull ==
    Loaded("subject_table_populator") =>
        \A i \in 1..Len(last.loaded) :
            LET record == last.loaded[i]
                r == SubjectRowOf(record)
            IN  /\ record.Age \in {NA, <<>>} => r.Age = NULL
                /\ record.Age \notin {NA, <<>>} => TextOf(r.Age) = record.Age
                /\ TextOf(r.Sex) = record.Sex
                /\ TextOf(r.BMI) = record.BMI
                /\ TextOf(r.Race) = record.Race
                /\ TextOf(r.SSPG) = record.SSPG
                /\ TextOf(r.InsulinStatus) = record.IR_IS_classification

\* C8: query 1 returns exactly the (SubjectID, Age) rows of the subjects whose
\* age is a number greater than 70, and never a subject whose age is absent.
C8_OnlyAgesOver70 ==
    Loaded("subjects_over_70") =>
        last.ret = {<<r.SubjectID, r.Age>> :
                        r \in {x \in tables.Subjects : x.Age.t = "num" /\ x.Age.n > 70 * x.Age.d}}

\* C10: query 6 returns one row (min, max, mean) over exactly the subjects
\* that have an age (an age is a number; an absent age is null), and a row of
\* nulls with a diagnostic when no subject has one.
C10_AgeStatisticsOverNonNull ==
    Loaded("statistical_data_on_age") =>
        LET rows == {r \in tables.Subjects : r.Age.t = "num"}
            ages == {r.Age : r \in rows}
        IN  IF rows = {}
            THEN last.ret = <<(<<NULL, NULL, NULL>>)>> /\ last.out # <<>>
            ELSE last.ret = <<(<<SqlMin(ages), SqlMax(ages),
                                 Ratio(SumAge(rows), Cardinality(rows))>>)>>

----------------------------------------------------------------------------
(* Properties of the sample loader.                                        *)

WellFormed(str) == Len(split(str, "-")) = 2

\* C3: a record whose SampleID does not split on "-" into exactly two parts
\* is skipped with a diagnostic: no record ends a load of the Samples table,
\* the load goes on to the remaining records and commits, and Samples ends
\* up holding exactly the well-formed records of the file.
C3_MalformedSampleSkipped ==
    /\ (last.op = "sample_table_populator" /\ "Samples" \in DOMAIN schema)
          => last.status = "ok"
    /\ (Loaded("sample_table_populator") /\ last.loaded.fieldnames = <<"SampleID">>)
          => LET lines == {last.loaded.lines[i] : i \in 1..Len(last.loaded.lines)}
             IN  /\ {TextOf(r.SampleID) : r \in tables.Samples}
                        = {l \in lines : WellFormed(l)}
                 /\ (\E l \in lines : ~WellFormed(l)) => Len(last.out) > 1

\* C5: every row of Samples satisfies SubjectID + "-" + VisitID = SampleID.
C5_SampleSplitInvariant ==
    \A r \in tables.Samples :
        TextOf(r.SubjectID) \o <<"-">> \o TextOf(r.VisitID) = TextOf(r.SampleID)

----------------------------------------------------------------------------
(* Properties of the wide-format loaders.                                  *)

WideLoaders ==
    [transcriptome_populator |-> [table |-> "TranscriptAbundance", column |-> "TranscriptID"],
     protein_populator       |-> [table |-> "ProteinAbundance", column |-> "ProteinID"],
     Metabolite_populator    |-> [table |-> "MetaboliteAbundance", column |-> "PeakID"]]

\* no two cells of the file stand for the same (SampleID, analyte) pair
NoRepeatedPair(file) ==
    /\ \A i, j \in 1..Len(file.fieldnames) :
          file.fieldnames[i] = file.fieldnames[j] => i = j
    /\ \A i, j \in 1..Len(file.lines) :
          file.lines[i][1] = file.lines[j][1] => i = j

\* C6: a load of an abundance file of N analyte columns and M lines without a
\* repeated (SampleID, analyte) pair leaves exactly N x M rows in the table,
\* one per line and analyte column with that cell's value as Abundance,
\* whatever the table held before.
C6_WideToLongPivot ==
    \A op \in DOMAIN WideLoaders :
        (Loaded(op) /\ NoRepeatedPair(last.loaded)) =>
            LET file == last.loaded
                rows == tables[WideLoaders[op].table]
                N == Len(file.fieldnames) - 1
                M == Len(file.lines)
            IN  /\ Cardinality(rows) = N * M
                /\ \A i \in 1..M : \A j \in 2..(N + 1) :
                      \E r \in rows :
                          /\ TextOf(r.SampleID) = file.lines[i][1]
                          /\ TextOf(r[WideLoaders[op].column]) = file.fieldnames[j]
                          /\ r.Abundance = Num(IntOf(file.lines[i][j]))

\* a load of two lines of two analytes into a table that held other rows
C6_Witness ==
    /\ Loaded("transcriptome_populator")
    /\ NoRepeatedPair(last.loaded)
    /\ Len(last.loaded.fieldnames) = 3
    /\ Len(last.loaded.lines) = 2
    /\ last.had = 1
    /\ Cardinality(tables.TranscriptAbundance) = 4

----------------------------------------------------------------------------
(* Properties of the whole program.                                        *)

PlainLoaders ==
    [subject_table_populator |-> "Subjects",
     transcriptome_populator |-> "TranscriptAbundance",
     protein_populator       |-> "ProteinAbundance",
     Metabolite_populator    |-> "MetaboliteAbundance",
     Annotations_populator   |-> "Annotation"]

Collided == last.op \in DOMAIN PlainLoaders /\ last.status = "IntegrityError"

\* C4 as claimed: after a primary-key collision partway through a file the
\* exception has left the loader and the destination table holds the rows
\* inserted before the collision: not what it held before the load and not
\* nothing.
C4_CollisionLeavesPartialTable ==
    Collided => tables[PlainLoaders[last.op]] = last.work

\* C4 as amended: when a loader hits a primary-key collision partway through
\* its file the exception leaves the loader before its commit, and the
\* database is as it was before the load: the destination table keeps the
\* rows it held, and neither the rows inserted before the collision nor any
\* later record of the file reaches it.
C4_CollisionKeepsTable ==
    [][Collided' => (tables' = tables /\ schema' = schema)]_vars

\* a collision after one insert, in a table that holds another row than the
\* one inserted
C4_Witness ==
    /\ Collided
    /\ last.at = 2
    /\ Cardinality(last.work) = 1
    /\ Cardinality(tables[PlainLoaders[last.op]]) = 1
    /\ tables[PlainLoaders[last.op]] # last.work

AllTables == {TableNames[i] : i \in 1..Len(TableNames)}

\* C7: database_struct on a database that has the six tables reports the
\* conflict, does not raise, and leaves the definition and the rows of every
\* table as they were.
C7_RecreateLeavesDatabase ==
    [][(DOMAIN schema = AllTables /\ last'.op = "database_struct") =>
            /\ schema' = schema
            /\ tables' = tables
            /\ last'.status = "ok"
            /\ last'.out = <<"Database Construction Has Begun", "SQLite error">>]_vars

\* database_struct has reported the conflict on a database whose six tables
\* all hold rows
C7_Witness ==
    /\ last.op = "database_struct"
    /\ Len(last.out) = 2
    /\ \A t \in AllTables : tables[t] # {}
    /\ \A t \in AllTables : schema[t] = TableDefs[t]

\* the statement of the query matched no row
MatchedNothing ==
    CASE last.op \in {"subjects_over_70", "subjects_metabolomic_insulin_resistant",
                      "KEGG_id_retriever"} -> last.ret = {}
      [] last.op \in {"females_with_healthy_BMI", "pathway_annotation_counter"} ->
            last.ret = <<>>
      [] last.op \in {"visits_by_ZNQOVZV", "age_bmi_plot"} -> DOMAIN last.ret = {}
      [] last.op = "statistical_data_on_age" -> RowsWithAge = {}
      [] last.op = "max_A1BG_abundance" -> RowsOfA1BG = {}
      [] OTHER -> FALSE

\* C9: a query function whose statement matches no row prints a diagnostic
\* and returns an empty collection (null for query 8), and does not raise.
C9_EmptyResultDiagnosed ==
    (last.status = "ok" /\ MatchedNothing) =>
        /\ last.out # <<>>
        /\ last.op = "statistical_data_on_age" => last.ret = <<>>
        /\ last.op = "max_A1BG_abundance" => last.ret = NULL

----------------------------------------------------------------------------
(* Properties of main.                                                     *)

Dispatched(n) == last.op = "main" /\ last.args.querydb = <<n>>

InvalidQueryNumber == "Invalid query number. Please choose between 1 and 9."

\* C11: for every integer given as --querydb that is not in 1..9, 0 and the
\* negative numbers included, main prints the invalid-query message, calls no
\* query function and returns.
C11_InvalidQueryRejected ==
    \A n \in (-1..10) \ (1..9) :
        Dispatched(n) =>
            /\ last.status = "ok"
            /\ \E i \in 1..Len(last.out) : last.out[i] = InvalidQueryNumber
            /\ \A i \in 1..Len(last.called) : last.called[i] = "database_struct"
            /\ last.printed = <<>>

\* C12: main with a query number of 1..9, on a database whose six tables
\* exist and are empty, ends without an exception: it reports the empty
\* result by messages only.
C12_EmptyDatabaseQueriesComplete ==
    \A n \in 1..9 :
        (/\ Dispatched(n)
         /\ DOMAIN schema = AllTables
         /\ \A t \in AllTables : tables[t] = {})
            => last.status = "ok"

====
